---- MODULE Spec2Model ----
(***************************************************************************)
(* devpi.py: a three-stage smoke test of a devpi server (login, upload,    *)
(* download) that drives external commands through run_command.            *)
(*                                                                         *)
(* The model follows the control flow of main and of the three stage       *)
(* functions.  An external process is started by run_command_start and     *)
(* exits in one of the *_exit actions, which carry on with the code of the *)
(* stage up to its next call of run_command or up to its return.           *)
(***************************************************************************)
EXTENDS Integers, Sequences, FiniteSets, TLC

\* Exit statuses an external process may return: 0..MaxStatus.
MaxStatus == 2

ExitStatuses == 0..MaxStatus

\* Texts an external process may leave on its captured stderr.
Stderrs == {"", "boom"}

\* Python's None, as the value of an attribute that holds text otherwise.
None == "None"

\* The working directories a run can be started from.
InvocationDir == "invocation_dir"

PackageDir == "test-package"

\* The names purged by test_upload (line 69), in order.
PurgeNames == <<"build", "dist", "*.egg-info">>

\* Directory names that may be present in the package directory at startup.
ArtifactDirs == {"build", "dist", "*.egg-info", "hello_devpi_test.egg-info"}

VARIABLES
    pc,                  \* position of the one thread of control
    running,             \* TRUE while subprocess.run blocks on a child process
    calls,               \* the child processes started so far: [cmd, check]
    exits,               \* the exit status of each finished child process
    captured,            \* the stderr captured from the last finished process
    outcome,             \* what the last finished run_command returned or raised
    results,             \* main's results dict, in insertion order
    ret,                 \* the value returned by the stage that finished last
    cwd,                 \* the process working directory
    cwd0,                \* the working directory at startup
    original_dir,        \* test_upload's local original_dir
    package_dir_exists,  \* whether test-package exists next to the script
    fs,                  \* the entries of the package directory
    rmtree_calls,        \* the names shutil.rmtree was called with
    sys_stderr,          \* the lines written to sys.stderr
    summary,             \* the lines of the test summary
    sys_exit             \* the codes passed to sys.exit (empty while running)

vars == <<pc, running, calls, exits, captured, outcome, results, ret, cwd, cwd0,
          original_dir, package_dir_exists, fs, rmtree_calls, sys_stderr,
          summary, sys_exit>>

\* The command and the mode of each call of run_command, by position.
CallSite ==
    [login_use          |-> [cmd |-> "devpi use server", check |-> TRUE],
     login_login        |-> [cmd |-> "devpi login", check |-> TRUE],
     upload_use         |-> [cmd |-> "devpi use index", check |-> TRUE],
     upload_build       |-> [cmd |-> "setup.py sdist bdist_wheel", check |-> TRUE],
     upload_upload      |-> [cmd |-> "devpi upload", check |-> TRUE],
     download_install   |-> [cmd |-> "pip install", check |-> TRUE],
     download_uninstall |-> [cmd |-> "pip uninstall", check |-> TRUE],
     download_cleanup   |-> [cmd |-> "pip uninstall", check |-> FALSE]]

Line(tag, returncode, text) ==
    [tag |-> tag, returncode |-> returncode, text |-> text]

\* run_command with the test of `check` left out of line 31.
run_command_ignores_check(site, returncode, stderr) ==
    IF returncode # 0
    THEN [kind |-> "raised", cmd |-> site.cmd, check |-> site.check,
          returncode |-> returncode, stderr |-> None]
    ELSE [kind |-> "returned", cmd |-> site.cmd, check |-> site.check,
          returncode |-> returncode, stderr |-> stderr]

\* run_command, from the exit of the child process on: either the
\* CompletedProcess it returns or the CalledProcessError it raises.
run_command(site, returncode, stderr) ==
    IF site.check /\ returncode # 0
    THEN [kind |-> "raised", cmd |-> site.cmd, check |-> site.check,
          returncode |-> returncode, stderr |-> None]
    ELSE [kind |-> "returned", cmd |-> site.cmd, check |-> site.check,
          returncode |-> returncode, stderr |-> stderr]

\* What run_command writes to sys.stderr before it raises.
run_command_stderr(site, returncode, stderr) ==
    IF site.check /\ returncode # 0
    THEN <<Line("Command failed with exit code", returncode, "")>>
         \o (IF stderr # "" THEN <<Line("stderr", returncode, stderr)>> ELSE <<>>)
    ELSE <<>>

\* results[key] = value on an insertion-ordered dict.
dict_set(d, key, value) ==
    IF \E i \in 1..Len(d) : d[i].name = key
    THEN [i \in 1..Len(d) |->
             IF d[i].name = key THEN [name |-> key, result |-> value] ELSE d[i]]
    ELSE Append(d, [name |-> key, result |-> value])

dict_has(d, key) == \E i \in 1..Len(d) : d[i].name = key

dict_get(d, key) ==
    LET i == CHOOSE j \in 1..Len(d) : d[j].name = key IN d[i].result

Init ==
    /\ pc = "main"
    /\ running = FALSE
    /\ calls = <<>>
    /\ exits = <<>>
    /\ captured = ""
    /\ outcome = [kind |-> "none", cmd |-> "", check |-> FALSE,
                  returncode |-> 0, stderr |-> None]
    /\ results = <<>>
    /\ ret = FALSE
    /\ package_dir_exists \in BOOLEAN
    /\ cwd0 \in (IF package_dir_exists THEN {InvocationDir, PackageDir}
                                       ELSE {InvocationDir})
    /\ cwd = cwd0
    /\ original_dir = None
    /\ fs \in (IF package_dir_exists THEN SUBSET ArtifactDirs ELSE {{}})
    /\ rmtree_calls = <<>>
    /\ sys_stderr = <<>>
    /\ summary = <<>>
    /\ sys_exit = <<>>

\* main without the test of package_dir.exists().
main_precondition_unchecked ==
    /\ pc = "main"
    /\ results' = <<>>
    /\ pc' = "login_use"
    /\ UNCHANGED <<running, calls, exits, captured, outcome, ret, cwd, cwd0,
                   original_dir, package_dir_exists, fs, rmtree_calls,
                   sys_stderr, summary, sys_exit>>

\* main up to the first stage: the package directory must exist.
main_precondition ==
    /\ pc = "main"
    /\ IF ~package_dir_exists
       THEN /\ sys_stderr' = Append(sys_stderr,
                                    Line("Package directory not found", 0, ""))
            /\ sys_exit' = Append(sys_exit, 1)
            /\ pc' = "exited"
            /\ UNCHANGED results
       ELSE /\ results' = <<>>
            /\ pc' = "login_use"
            /\ UNCHANGED <<sys_stderr, sys_exit>>
    /\ UNCHANGED <<running, calls, exits, captured, outcome, ret, cwd, cwd0,
                   original_dir, package_dir_exists, fs, rmtree_calls, summary>>

\* run_command up to the point where subprocess.run blocks on the child.
run_command_start ==
    /\ pc \in DOMAIN CallSite
    /\ ~running
    /\ running' = TRUE
    /\ calls' = Append(calls, CallSite[pc])
    /\ UNCHANGED <<pc, exits, captured, outcome, results, ret, cwd, cwd0, original_dir,
                   package_dir_exists, fs, rmtree_calls, sys_stderr, summary,
                   sys_exit>>

\* The child process of the call at `site` exits: what every *_exit action
\* shares, with `lines` the lines the stage itself adds to sys.stderr.
process_exit(site, returncode, stderr, lines) ==
    /\ pc = site
    /\ running
    /\ running' = FALSE
    /\ exits' = Append(exits, returncode)
    /\ captured' = stderr
    /\ outcome' = run_command(CallSite[site], returncode, stderr)
    /\ sys_stderr' = sys_stderr
                       \o run_command_stderr(CallSite[site], returncode, stderr)
                       \o lines
    /\ UNCHANGED <<calls, results, cwd0, package_dir_exists, summary, sys_exit>>

Raised(site, returncode, stderr) ==
    run_command(CallSite[site], returncode, stderr).kind = "raised"

\* test_login going on to the login after a failed "devpi use <server>".
test_login_use_exit_swallowed(returncode, stderr) ==
    /\ process_exit("login_use", returncode, stderr, <<>>)
    /\ pc' = "login_login"
    /\ UNCHANGED <<ret, cwd, original_dir, fs, rmtree_calls>>

\* test_login: "devpi use <server>" exits.
test_login_use_exit(returncode, stderr) ==
    /\ IF Raised("login_use", returncode, stderr)
       THEN /\ process_exit("login_use", returncode, stderr,
                            <<Line("Login test failed", 0, "")>>)
            /\ ret' = FALSE
            /\ pc' = "main_login_returned"
       ELSE /\ process_exit("login_use", returncode, stderr, <<>>)
            /\ pc' = "login_login"
            /\ UNCHANGED ret
    /\ UNCHANGED <<cwd, original_dir, fs, rmtree_calls>>

\* test_login without its except clause: the CalledProcessError of a failed
\* "devpi login" leaves the stage and ends main with a traceback.
test_login_login_exit_propagates(returncode, stderr) ==
    /\ pc = "login_login"
    /\ running
    /\ running' = FALSE
    /\ exits' = Append(exits, returncode)
    /\ captured' = stderr
    /\ outcome' = run_command(CallSite["login_login"], returncode, stderr)
    /\ IF Raised("login_login", returncode, stderr)
       THEN /\ sys_stderr' = sys_stderr
                    \o run_command_stderr(CallSite["login_login"], returncode, stderr)
                    \o <<Line("Traceback", 0, "")>>
            /\ sys_exit' = Append(sys_exit, 1)
            /\ pc' = "exited"
            /\ UNCHANGED ret
       ELSE /\ ret' = TRUE
            /\ pc' = "main_login_returned"
            /\ UNCHANGED <<sys_stderr, sys_exit>>
    /\ UNCHANGED <<calls, results, cwd, cwd0, original_dir, package_dir_exists,
                   fs, rmtree_calls, summary>>

\* test_login: "devpi login" exits.
test_login_login_exit(returncode, stderr) ==
    /\ IF Raised("login_login", returncode, stderr)
       THEN /\ process_exit("login_login", returncode, stderr,
                            <<Line("Login test failed", 0, "")>>)
            /\ ret' = FALSE
       ELSE /\ process_exit("login_login", returncode, stderr, <<>>)
            /\ ret' = TRUE
    /\ pc' = "main_login_returned"
    /\ UNCHANGED <<cwd, original_dir, fs, rmtree_calls>>

\* The names of PurgeNames that exist in the package directory, in order:
\* the ones the purge loop of test_upload calls shutil.rmtree with.
purge_targets(entries) == SelectSeq(PurgeNames, LAMBDA name : name \in entries)

Range(seq) == {seq[i] : i \in 1..Len(seq)}

\* test_upload: "devpi use <index>" exits; on success the stage changes to
\* the package directory and purges the old build artifacts.  rmtree ignores
\* its errors, so any of the directories it is called with may survive.
test_upload_use_exit(returncode, stderr, removed) ==
    /\ IF Raised("upload_use", returncode, stderr)
       THEN /\ process_exit("upload_use", returncode, stderr,
                            <<Line("Upload test failed", 0, "")>>)
            /\ removed = {}
            /\ ret' = FALSE
            /\ pc' = "main_upload_returned"
            /\ UNCHANGED <<cwd, original_dir, fs, rmtree_calls>>
       ELSE /\ process_exit("upload_use", returncode, stderr, <<>>)
            /\ original_dir' = cwd
            /\ cwd' = PackageDir
            /\ removed \subseteq Range(purge_targets(fs))
            /\ rmtree_calls' = rmtree_calls \o purge_targets(fs)
            /\ fs' = fs \ removed
            /\ pc' = "upload_build"
            /\ UNCHANGED ret

\* test_upload without the chdir of its finally clause.
upload_finally_no_restore(dir, saved) == dir

\* The finally clause of test_upload.
upload_finally(dir, saved) == saved

\* test_upload going on to the upload after a failed build.
test_upload_build_exit_swallowed(returncode, stderr) ==
    /\ process_exit("upload_build", returncode, stderr, <<>>)
    /\ pc' = "upload_upload"
    /\ UNCHANGED <<cwd, ret, original_dir, fs, rmtree_calls>>

\* test_upload: "setup.py sdist bdist_wheel" exits.
test_upload_build_exit(returncode, stderr) ==
    /\ IF Raised("upload_build", returncode, stderr)
       THEN /\ process_exit("upload_build", returncode, stderr,
                            <<Line("Upload test failed", 0, "")>>)
            /\ cwd' = upload_finally(cwd, original_dir)
            /\ ret' = FALSE
            /\ pc' = "main_upload_returned"
       ELSE /\ process_exit("upload_build", returncode, stderr, <<>>)
            /\ pc' = "upload_upload"
            /\ UNCHANGED <<cwd, ret>>
    /\ UNCHANGED <<original_dir, fs, rmtree_calls>>

\* test_upload changing back to original_dir in its except clause instead of
\* a finally clause: a successful upload leaves the directory changed.
test_upload_upload_exit_restores_on_failure(returncode, stderr) ==
    /\ IF Raised("upload_upload", returncode, stderr)
       THEN /\ process_exit("upload_upload", returncode, stderr,
                            <<Line("Upload test failed", 0, "")>>)
            /\ cwd' = original_dir
            /\ ret' = FALSE
       ELSE /\ process_exit("upload_upload", returncode, stderr, <<>>)
            /\ ret' = TRUE
            /\ UNCHANGED cwd
    /\ pc' = "main_upload_returned"
    /\ UNCHANGED <<original_dir, fs, rmtree_calls>>

\* test_upload: "devpi upload" exits.
test_upload_upload_exit(returncode, stderr) ==
    /\ IF Raised("upload_upload", returncode, stderr)
       THEN /\ process_exit("upload_upload", returncode, stderr,
                            <<Line("Upload test failed", 0, "")>>)
            /\ ret' = FALSE
       ELSE /\ process_exit("upload_upload", returncode, stderr, <<>>)
            /\ ret' = TRUE
    /\ cwd' = upload_finally(cwd, original_dir)
    /\ pc' = "main_upload_returned"
    /\ UNCHANGED <<original_dir, fs, rmtree_calls>>

\* test_download returning True right after the install, without cleaning up.
test_download_install_exit_no_uninstall(returncode, stderr) ==
    /\ IF Raised("download_install", returncode, stderr)
       THEN /\ process_exit("download_install", returncode, stderr,
                            <<Line("Download/install test failed", 0, "")>>)
            /\ pc' = "download_cleanup"
            /\ UNCHANGED ret
       ELSE /\ process_exit("download_install", returncode, stderr, <<>>)
            /\ ret' = TRUE
            /\ pc' = "main_download_returned"
    /\ UNCHANGED <<cwd, original_dir, fs, rmtree_calls>>

\* test_download returning False from its except clause without the uninstall.
test_download_install_exit_no_cleanup(returncode, stderr) ==
    /\ IF Raised("download_install", returncode, stderr)
       THEN /\ process_exit("download_install", returncode, stderr,
                            <<Line("Download/install test failed", 0, "")>>)
            /\ ret' = FALSE
            /\ pc' = "main_download_returned"
       ELSE /\ process_exit("download_install", returncode, stderr, <<>>)
            /\ pc' = "download_uninstall"
            /\ UNCHANGED ret
    /\ UNCHANGED <<cwd, original_dir, fs, rmtree_calls>>

\* test_download: "pip install" exits; a failure goes to the except clause,
\* which runs the uninstall in non-fatal mode.
test_download_install_exit(returncode, stderr) ==
    /\ IF Raised("download_install", returncode, stderr)
       THEN /\ process_exit("download_install", returncode, stderr,
                            <<Line("Download/install test failed", 0, "")>>)
            /\ pc' = "download_cleanup"
       ELSE /\ process_exit("download_install", returncode, stderr, <<>>)
            /\ pc' = "download_uninstall"
    /\ UNCHANGED <<ret, cwd, original_dir, fs, rmtree_calls>>

\* test_download: the "pip uninstall" after a successful install exits.  It
\* runs in fatal mode, so its failure goes to the except clause as well.
test_download_uninstall_exit(returncode, stderr) ==
    /\ IF Raised("download_uninstall", returncode, stderr)
       THEN /\ process_exit("download_uninstall", returncode, stderr,
                            <<Line("Download/install test failed", 0, "")>>)
            /\ pc' = "download_cleanup"
            /\ UNCHANGED ret
       ELSE /\ process_exit("download_uninstall", returncode, stderr, <<>>)
            /\ ret' = TRUE
            /\ pc' = "main_download_returned"
    /\ UNCHANGED <<cwd, original_dir, fs, rmtree_calls>>

\* test_download trying the uninstall of its except clause up to three times
\* while it fails.
test_download_cleanup_exit_retries(returncode, stderr) ==
    /\ process_exit("download_cleanup", returncode, stderr, <<>>)
    /\ IF returncode # 0
          /\ Cardinality({i \in 1..Len(calls) : calls[i].cmd = "pip uninstall"}) < 3
       THEN /\ pc' = "download_cleanup"
            /\ UNCHANGED ret
       ELSE /\ ret' = FALSE
            /\ pc' = "main_download_returned"
    /\ UNCHANGED <<cwd, original_dir, fs, rmtree_calls>>

\* test_download: the "pip uninstall" of the except clause exits; whatever
\* it does (the bare except passes over an error), the stage returns False.
test_download_cleanup_exit(returncode, stderr) ==
    /\ process_exit("download_cleanup", returncode, stderr, <<>>)
    /\ ret' = FALSE
    /\ pc' = "main_download_returned"
    /\ UNCHANGED <<cwd, original_dir, fs, rmtree_calls>>

\* main running the upload stage whatever the login stage returned.
main_login_returned_ungated ==
    /\ pc = "main_login_returned"
    /\ results' = dict_set(results, "login", ret)
    /\ pc' = "upload_use"
    /\ UNCHANGED <<running, calls, exits, captured, outcome, ret, cwd, cwd0,
                   original_dir, package_dir_exists, fs, rmtree_calls,
                   sys_stderr, summary, sys_exit>>

\* main: test_login has returned; the upload stage runs only after a
\* successful login and is recorded as failed otherwise.
main_login_returned ==
    /\ pc = "main_login_returned"
    /\ LET logged == dict_set(results, "login", ret) IN
         IF dict_get(logged, "login")
         THEN /\ results' = logged
              /\ pc' = "upload_use"
         ELSE /\ results' = dict_set(logged, "upload", FALSE)
              /\ pc' = "main_download"
    /\ UNCHANGED <<running, calls, exits, captured, outcome, ret, cwd, cwd0,
                   original_dir, package_dir_exists, fs, rmtree_calls,
                   sys_stderr, summary, sys_exit>>

\* main: test_upload has returned.
main_upload_returned ==
    /\ pc = "main_upload_returned"
    /\ results' = dict_set(results, "upload", ret)
    /\ pc' = "main_download"
    /\ UNCHANGED <<running, calls, exits, captured, outcome, ret, cwd, cwd0,
                   original_dir, package_dir_exists, fs, rmtree_calls,
                   sys_stderr, summary, sys_exit>>

\* main without the results['download'] = False of its else branch.
main_download_omits_skipped ==
    /\ pc = "main_download"
    /\ pc' = IF dict_get(results, "upload") THEN "download_install"
                                            ELSE "main_summary"
    /\ UNCHANGED <<running, calls, exits, captured, outcome, results, ret, cwd,
                   cwd0, original_dir, package_dir_exists, fs, rmtree_calls,
                   sys_stderr, summary, sys_exit>>

\* main running the download stage whatever the upload stage returned.
main_download_ungated ==
    /\ pc = "main_download"
    /\ pc' = "download_install"
    /\ UNCHANGED <<running, calls, exits, captured, outcome, results, ret, cwd,
                   cwd0, original_dir, package_dir_exists, fs, rmtree_calls,
                   sys_stderr, summary, sys_exit>>

\* main: the download stage runs only after a successful upload and is
\* recorded as failed otherwise.
main_download ==
    /\ pc = "main_download"
    /\ IF dict_get(results, "upload")
       THEN /\ pc' = "download_install"
            /\ UNCHANGED results
       ELSE /\ results' = dict_set(results, "download", FALSE)
            /\ pc' = "main_summary"
    /\ UNCHANGED <<running, calls, exits, captured, outcome, ret, cwd, cwd0,
                   original_dir, package_dir_exists, fs, rmtree_calls,
                   sys_stderr, summary, sys_exit>>

\* main storing the result of test_download under the key of the upload.
main_download_returned_wrong_key ==
    /\ pc = "main_download_returned"
    /\ results' = dict_set(results, "upload", ret)
    /\ pc' = "main_summary"
    /\ UNCHANGED <<running, calls, exits, captured, outcome, ret, cwd, cwd0,
                   original_dir, package_dir_exists, fs, rmtree_calls,
                   sys_stderr, summary, sys_exit>>

\* main: test_download has returned.
main_download_returned ==
    /\ pc = "main_download_returned"
    /\ results' = dict_set(results, "download", ret)
    /\ pc' = "main_summary"
    /\ UNCHANGED <<running, calls, exits, captured, outcome, ret, cwd, cwd0,
                   original_dir, package_dir_exists, fs, rmtree_calls,
                   sys_stderr, summary, sys_exit>>

\* str.capitalize on the keys of results.
capitalize(name) ==
    CASE name = "login" -> "Login"
      [] name = "upload" -> "Upload"
      [] name = "download" -> "Download"
      [] OTHER -> name

\* The loop of main over results.items(): all_passed at its end.
all_passed(d) == \A i \in 1..Len(d) : d[i].result

\* main ending with sys.exit(0) on both branches.
exit_status_always_zero(passed) == 0

\* The code main ends the process with.
exit_status(passed) == IF passed THEN 0 ELSE 1

\* main: the summary and the exit code.
main_summary ==
    /\ pc = "main_summary"
    /\ summary' = [i \in 1..Len(results) |->
                     [name |-> capitalize(results[i].name),
                      status |-> IF results[i].result THEN "PASSED" ELSE "FAILED"]]
    /\ sys_stderr' = IF all_passed(results)
                     THEN sys_stderr
                     ELSE Append(sys_stderr, Line("Some tests failed", 0, ""))
    /\ sys_exit' = Append(sys_exit, exit_status(all_passed(results)))
    /\ pc' = "exited"
    /\ UNCHANGED <<running, calls, exits, captured, outcome, results, ret, cwd, cwd0,
                   original_dir, package_dir_exists, fs, rmtree_calls>>

Next ==
    \/ main_precondition
    \/ run_command_start
    \/ \E returncode \in ExitStatuses, stderr \in Stderrs :
          \/ test_login_use_exit(returncode, stderr)
          \/ test_login_login_exit(returncode, stderr)
          \/ \E removed \in SUBSET ArtifactDirs :
                test_upload_use_exit(returncode, stderr, removed)
          \/ test_upload_build_exit(returncode, stderr)
          \/ test_upload_upload_exit(returncode, stderr)
          \/ test_download_install_exit(returncode, stderr)
          \/ test_download_uninstall_exit(returncode, stderr)
          \/ test_download_cleanup_exit(returncode, stderr)
    \/ main_login_returned
    \/ main_upload_returned
    \/ main_download
    \/ main_download_returned
    \/ main_summary

Spec == Init /\ [][Next]_vars

\* The steps of the script itself, and the exit of the child process that
\* subprocess.run is blocked on.
ProgramStep == Next /\ ~running

ProcessExit == Next /\ running

\* The script never stops while it has a step to take, and every child
\* process it waits for exits in the end.
FairSpec == Spec /\ WF_vars(ProgramStep) /\ WF_vars(ProcessExit)

TypeOK ==
    /\ pc \in (DOMAIN CallSite) \cup
              {"main", "main_login_returned", "main_upload_returned",
               "main_download", "main_download_returned", "main_summary",
               "exited"}
    /\ running \in BOOLEAN
    /\ outcome.kind \in {"none", "returned", "raised"}
    /\ Len(calls) = Len(exits) + (IF running THEN 1 ELSE 0)
    /\ cwd \in {InvocationDir, PackageDir}
    /\ Len(sys_exit) <= 1

(***************************************************************************)
(* Vocabulary of the properties.                                           *)
(***************************************************************************)

\* The commands of each stage.
LoginCmds == {"devpi use server", "devpi login"}

UploadCmds == {"devpi use index", "setup.py sdist bdist_wheel", "devpi upload"}

\* The seven commands of a run in which nothing fails.
HappyPath ==
    <<"devpi use server", "devpi login", "devpi use index",
      "setup.py sdist bdist_wheel", "devpi upload", "pip install",
      "pip uninstall">>

\* The finished calls of the given commands that ran in fatal mode and
\* exited with a non-zero status.
FailedCalls(cmds) ==
    {i \in 1..Len(exits) : calls[i].cmd \in cmds /\ calls[i].check /\ exits[i] # 0}

\* How many times a command was started.
Count(cmd) == Cardinality({i \in 1..Len(calls) : calls[i].cmd = cmd})

Recorded(name, value) == dict_has(results, name) /\ dict_get(results, name) = value

Exited == pc = "exited"

AllZero(n) == Len(exits) >= n /\ \A i \in 1..n : exits[i] = 0

\* C1: a failing command of the login stage or of the upload stage is the
\* last external command of the run; after a failed login stage the upload
\* and the download are recorded as failed, after a failed upload stage the
\* download is recorded as failed.
C1_FailureStopsPipeline ==
    /\ \A i \in FailedCalls(LoginCmds \cup UploadCmds) : Len(calls) = i
    /\ (Exited /\ FailedCalls(LoginCmds) # {}) =>
          /\ Recorded("login", FALSE)
          /\ Recorded("upload", FALSE)
          /\ Recorded("download", FALSE)
    /\ (Exited /\ FailedCalls(UploadCmds) # {}) =>
          /\ Recorded("upload", FALSE)
          /\ Recorded("download", FALSE)
          /\ Count("pip install") = 0
          /\ Count("pip uninstall") = 0

\* A run that ended after the build of the upload stage failed.
C1_Witness ==
    /\ Exited
    /\ AllZero(3)
    /\ Len(exits) = 4
    /\ exits[4] # 0
    /\ Recorded("login", TRUE)

\* C2: a run that reaches the summary ends with exit code 0 if the three
\* recorded results are all true and with exit code 1 otherwise.
C2_ExitCode ==
    (Exited /\ summary # <<>>) =>
        /\ Len(sys_exit) = 1
        /\ sys_exit[1] \in {0, 1}
        /\ sys_exit[1] = 0 <=> /\ Recorded("login", TRUE)
                               /\ Recorded("upload", TRUE)
                               /\ Recorded("download", TRUE)

\* A run that printed its summary and ended with exit code 1 after the
\* first two stages passed.
C2_Witness ==
    /\ Exited
    /\ Len(summary) = 3
    /\ Recorded("upload", TRUE)
    /\ Recorded("download", FALSE)
    /\ sys_exit = <<1>>

\* C3: the working directory is the startup directory when test_upload is
\* entered and again when it has returned, on every path through the stage.
C3_UploadRestoresCwd ==
    pc \in {"upload_use", "main_upload_returned"} => cwd = cwd0

\* test_upload has returned after its build failed, in a run that was not
\* started from the package directory.
C3_Witness ==
    /\ pc = "main_upload_returned"
    /\ cwd0 # PackageDir
    /\ original_dir = cwd0
    /\ Len(exits) = 4
    /\ exits[4] # 0
    /\ ~ret

\* C4: pip uninstall is started at most once, and exactly once by the end of
\* a run in which pip install was started.
C4_UninstallOnce ==
    /\ Count("pip uninstall") <= 1
    /\ (Exited /\ Count("pip install") > 0) => Count("pip uninstall") = 1

\* C5: test_download returns True exactly if pip install exited with 0.
C5_DownloadIffInstall ==
    pc = "main_download_returned" => (ret <=> exits[6] = 0)

\* C6: without the package directory no command is started, results and the
\* summary stay empty, and the run ends at once with a non-zero exit code.
C6_MissingPackageDir ==
    ~package_dir_exists =>
        /\ calls = <<>>
        /\ results = <<>>
        /\ summary = <<>>
        /\ pc \in {"main", "exited"}
        /\ Exited => (Len(sys_exit) = 1 /\ sys_exit[1] # 0)

\* The run ended because the package directory is missing.
C6_Witness == ~package_dir_exists /\ Exited /\ sys_exit = <<1>>

\* C7: test_login returns True exactly if "devpi use" and "devpi login" both
\* exited with 0, and "devpi login" is never started after a failed
\* "devpi use".
C7_LoginIffBoth ==
    /\ pc = "main_login_returned" => (ret <=> (Len(exits) = 2 /\ AllZero(2)))
    /\ (Len(exits) >= 1 /\ exits[1] # 0) => Count("devpi login") = 0

\* test_login has returned False after "devpi use" succeeded and
\* "devpi login" failed.
C7_Witness ==
    /\ pc = "main_login_returned"
    /\ Len(exits) = 2
    /\ exits[1] = 0
    /\ exits[2] # 0
    /\ ~ret

\* C8: while every command exits with 0 the commands started are a prefix
\* of the seven of HappyPath, and such a run ends with all seven started,
\* three true results and exit code 0.
C8_HappyPath ==
    AllZero(Len(exits)) =>
        /\ Len(calls) <= Len(HappyPath)
        /\ \A i \in 1..Len(calls) : calls[i].cmd = HappyPath[i]
        /\ (Exited /\ package_dir_exists) =>
              /\ Len(calls) = Len(HappyPath)
              /\ results = <<[name |-> "login", result |-> TRUE],
                             [name |-> "upload", result |-> TRUE],
                             [name |-> "download", result |-> TRUE]>>
              /\ sys_exit = <<0>>

\* A run that ended after seven commands that all exited with 0.
C8_Witness == Exited /\ Len(exits) = 7 /\ AllZero(7)

\* C9: after five successful commands and a failed pip install, the run
\* ends with download recorded as failed and exit code 1, and pip uninstall
\* is started once, in non-fatal mode, as the seventh and last command.
C9_InstallFails ==
    (AllZero(5) /\ Len(exits) >= 6 /\ exits[6] # 0) =>
        /\ Count("pip uninstall") <= 1
        /\ Exited =>
              /\ Recorded("download", FALSE)
              /\ sys_exit = <<1>>
              /\ Len(calls) = 7
              /\ calls[7] = [cmd |-> "pip uninstall", check |-> FALSE]

\* A run that ended after pip install failed and the uninstall failed too.
C9_Witness ==
    /\ Exited
    /\ AllZero(5)
    /\ Len(exits) = 7
    /\ exits[6] # 0
    /\ exits[7] # 0

\* The last call of run_command has finished.
Finished == outcome.kind # "none" /\ ~running

LastExit == exits[Len(exits)]

\* What run_command does in non-fatal mode, and in either mode when the
\* child process exits with 0: it returns what the process gave.
ReturnsOutcome ==
    /\ outcome.kind = "returned"
    /\ outcome.returncode = LastExit
    /\ outcome.stderr = captured

StageReturn(site) ==
    CASE site \in {"login_use", "login_login"} -> "main_login_returned"
      [] site \in {"upload_use", "upload_build", "upload_upload"} ->
            "main_upload_returned"
      [] OTHER -> "main_download_returned"

\* C11: when run_command raises, control stays in the stage: the stage
\* returns False to main or, in test_download, goes on to the non-fatal
\* uninstall of its except clause, which never raises and after which the
\* stage returns False.
C11_ErrorsCaughtInStage ==
    [][/\ (running /\ ~running' /\ outcome'.kind = "raised") =>
             \/ pc' = StageReturn(pc) /\ ~ret'
             \/ /\ pc \in {"download_install", "download_uninstall"}
                /\ pc' = "download_cleanup"
       /\ (pc = "download_cleanup" /\ running /\ ~running') =>
             /\ outcome'.kind = "returned"
             /\ pc' = "main_download_returned"
             /\ ~ret']_vars

\* A run that ended after the fatal uninstall raised and the uninstall of
\* the except clause failed as well.
C11_Witness ==
    /\ Exited
    /\ Len(exits) = 8
    /\ exits[7] # 0
    /\ exits[8] # 0
    /\ Recorded("download", FALSE)
    /\ Len(summary) = 3

\* main has reached its summary, or has printed it and exited.
AtSummary == pc = "main_summary" \/ (Exited /\ package_dir_exists)

\* The keys of a dict, in insertion order.
Names(d) == [i \in 1..Len(d) |-> d[i].name]

PassFail(value) == IF value THEN "PASSED" ELSE "FAILED"

\* C12: at summary time results holds login, upload and download, in this
\* order; a stage none of whose commands was started is recorded as False;
\* the summary printed has one line for each of the three.
C12_ThreeEntries ==
    AtSummary =>
        /\ Names(results) = <<"login", "upload", "download">>
        /\ Count("devpi use index") = 0 => Recorded("upload", FALSE)
        /\ Count("pip install") = 0 => Recorded("download", FALSE)
        /\ Exited =>
              summary = <<[name |-> "Login", status |-> PassFail(results[1].result)],
                          [name |-> "Upload", status |-> PassFail(results[2].result)],
                          [name |-> "Download", status |-> PassFail(results[3].result)]>>

\* A run that printed three summary lines after the first command of the
\* login stage failed and the other two stages were skipped.
C12_Witness ==
    /\ Exited
    /\ Len(calls) = 1
    /\ exits[1] # 0
    /\ Len(summary) = 3
    /\ Len(results) = 3

\* The stage a command belongs to: 1 login, 2 upload, 3 download.
StageOf(cmd) ==
    IF cmd \in LoginCmds THEN 1 ELSE IF cmd \in UploadCmds THEN 2 ELSE 3

\* How many times a stage was attempted: every stage starts its first
\* command as soon as it is entered.
Attempts(stage) ==
    Count(CASE stage = 1 -> "devpi use server"
            [] stage = 2 -> "devpi use index"
            [] stage = 3 -> "pip install")

\* C13: no stage is attempted twice, the commands of the stages follow each
\* other in the order login, upload, download, the upload stage is attempted
\* only after a True login and the download stage only after a True upload;
\* by the summary the login stage was attempted once, the upload stage once
\* if login is True and not at all otherwise, the download stage once if
\* upload is True and not at all otherwise.
C13_SingleAttempts ==
    /\ \A stage \in 1..3 : Attempts(stage) <= 1
    /\ \A i, j \in 1..Len(calls) :
          i < j => StageOf(calls[i].cmd) <= StageOf(calls[j].cmd)
    /\ Attempts(2) > 0 => Recorded("login", TRUE)
    /\ Attempts(3) > 0 => Recorded("upload", TRUE)
    /\ AtSummary =>
          /\ Attempts(1) = 1
          /\ Attempts(2) = IF Recorded("login", TRUE) THEN 1 ELSE 0
          /\ Attempts(3) = IF Recorded("upload", TRUE) THEN 1 ELSE 0

\* A run that ended with the login stage and the upload stage attempted once
\* and the download stage never, because the upload failed.
C13_Witness ==
    /\ Exited
    /\ Attempts(1) = 1
    /\ Attempts(2) = 1
    /\ Attempts(3) = 0
    /\ Recorded("login", TRUE)
    /\ Recorded("upload", FALSE)

\* The three results at summary time, in the order login, upload, download.
Triple ==
    <<dict_get(results, "login"), dict_get(results, "upload"),
      dict_get(results, "download")>>

\* C14: a True result of a stage is never recorded without a True result of
\* every earlier stage, and at summary time the three results are one of
\* all-pass, fail-at-login, fail-at-upload and fail-at-download.
C14_FourOutcomes ==
    /\ Recorded("upload", TRUE) => Recorded("login", TRUE)
    /\ Recorded("download", TRUE) =>
          (Recorded("upload", TRUE) /\ Recorded("login", TRUE))
    /\ AtSummary =>
          Triple \in {<<TRUE, TRUE, TRUE>>, <<FALSE, FALSE, FALSE>>,
                      <<TRUE, FALSE, FALSE>>, <<TRUE, TRUE, FALSE>>}

\* main has reached its summary with login passed, upload failed and
\* download skipped.
C14_Witness ==
    /\ pc = "main_summary"
    /\ Triple = <<TRUE, FALSE, FALSE>>
    /\ Count("pip install") = 0

\* C15: once the build command is started, shutil.rmtree has been called
\* for every build-artifact directory the package directory had.  rmtree is
\* the only thing that removes an entry, so the directories it was never
\* called for are the entries left that are not among its calls.
C15_PurgeBeforeBuild ==
    Count("setup.py sdist bdist_wheel") > 0 =>
        \A name \in fs \cap ArtifactDirs : name \in Range(rmtree_calls)

\* C16: the commands of the upload stage are started in the order select
\* index, build, upload, as the third to fifth command of the run.  Until
\* the index selection has exited the directory is unchanged and nothing is
\* purged; the build is started only after a successful index selection,
\* in the package directory and with rmtree called for every purge name
\* that exists; the upload is started only after a successful build.  The
\* stage returns True exactly if all three exited with 0.
C16_UploadOrder ==
    /\ \A i \in 1..Len(calls) :
          calls[i].cmd \in UploadCmds => (i \in 3..5 /\ calls[i].cmd = HappyPath[i])
    /\ pc = "upload_use" =>
          (cwd = cwd0 /\ original_dir = None /\ rmtree_calls = <<>>)
    /\ pc \in {"upload_build", "upload_upload"} =>
          /\ cwd = PackageDir
          /\ original_dir = cwd0
          /\ \A i \in 1..Len(PurgeNames) :
                PurgeNames[i] \in fs => PurgeNames[i] \in Range(rmtree_calls)
    /\ Count("setup.py sdist bdist_wheel") > 0 => (Len(exits) >= 3 /\ exits[3] = 0)
    /\ Count("devpi upload") > 0 => (Len(exits) >= 4 /\ exits[4] = 0)
    /\ pc = "main_upload_returned" =>
          (ret <=> (Len(exits) = 5 /\ \A i \in 3..5 : exits[i] = 0))

\* test_upload has returned True after purging at least one directory.
C16_Witness ==
    /\ pc = "main_upload_returned"
    /\ ret
    /\ Len(exits) = 5
    /\ rmtree_calls # <<>>

IsPrefix(s, t) == Len(s) <= Len(t) /\ \A i \in 1..Len(s) : s[i] = t[i]

\* C17: every step leaves the entries of results as they are and at most
\* adds entries after them, and the keys are always the first ones of
\* login, upload, download: no entry is written twice, changed or removed.
C17_ResultsGrowOnly ==
    [][/\ IsPrefix(results, results')
       /\ IsPrefix(Names(results'), <<"login", "upload", "download">>)]_vars

\* test_download has returned False while results holds a True login and a
\* True upload, the third entry still to be written.
C17_Witness ==
    /\ pc = "main_download_returned"
    /\ ~ret
    /\ results = <<[name |-> "login", result |-> TRUE],
                   [name |-> "upload", result |-> TRUE]>>

\* The most commands a run can start: the seven of HappyPath and the second
\* uninstall of test_download.
MaxCalls == Len(HappyPath) + 1

\* C18: when every child process exits, the run ends with an exit code; no
\* run starts more than eight commands; and while a child process has not
\* exited the run is at the call that waits for it, with no summary and no
\* exit code, and the only step there is is the exit of that process.
C18_Terminates ==
    /\ <>(Exited /\ Len(sys_exit) = 1)
    /\ [](Len(calls) <= MaxCalls)
    /\ [](running => (pc \in DOMAIN CallSite /\ summary = <<>> /\ sys_exit = <<>>))
    /\ [][running => (~running' /\ Len(exits') = Len(exits) + 1)]_vars

\* A run that ended with an exit code after starting eight commands.
C18_Witness == Exited /\ Len(calls) = MaxCalls /\ Len(sys_exit) = 1

\* C19: the working directory differs from the startup directory only
\* between the chdir and the finally clause of test_upload, that is while
\* the stage is at its build or at its upload; everywhere else, the end of
\* the run included, it is the startup directory.
C19_CwdChangedOnlyInUpload ==
    cwd # cwd0 => pc \in {"upload_build", "upload_upload"}

\* The upload command is running in the package directory, in a run that
\* was started elsewhere.
C19_Witness ==
    /\ pc = "upload_upload"
    /\ running
    /\ cwd = PackageDir
    /\ cwd0 = InvocationDir

====
